---- MODULE Spec2Model ----
(***************************************************************************)
(* A model of the three services of the repository:                       *)
(*   Flask/app.py     the API Service over the SQLite store (query_db),    *)
(*   Flask/client.py  the Client Service that forwards to the API Service, *)
(*   FastAPI/main.py  the Demo Service with its process-wide items list.   *)
(***************************************************************************)
EXTENDS Integers, Sequences, FiniteSets, Bags, TLC

VARIABLES
    tables,     \* names of the tables that exist in database.db
    users,      \* rows of table users, in rowid order: <<id, name, email>>
    products,   \* rows of table products, in rowid order: <<id, name, price>>
    users0,     \* contents of users when the services started
    products0,  \* contents of products when the services started
    open,       \* connections query_db opened and left open on exit
    apiReq,     \* the request the API Service handled in the latest
                \* exchange (none when the exchange never reached it)
    apiResp,    \* its response
    cliReq,     \* the request the Client Service handled in the latest
                \* exchange (none when the API Service was asked directly)
    cliUp,      \* what the forwarding call of that request got back
    cliResp,    \* the Client Service's response to the browser
    qIn,        \* arguments of the last direct call of query_db
    qOut,       \* its outcome
    items,      \* Demo Service: the process-wide list
    calls,      \* Demo Service: the POST /items calls, each with its position
    demoResp    \* Demo Service: response of the last GET request

vars == <<tables, users, products, users0, products0, open, apiReq, apiResp,
          cliReq, cliUp, cliResp, qIn, qOut, items, calls, demoResp>>

flaskVars == <<tables, users, products, users0, products0, open, apiReq,
               apiResp, cliReq, cliUp, cliResp, qIn, qOut>>

demoVars == <<items, calls, demoResp>>

---------------------------------------------------------------------------
(* Bounds of the model *)

\* ids a row of the initial store may carry: 1..MaxId
MaxId == 2

\* connections counted as left open before failing requests are cut off
MaxOpen == 2

\* POST /items calls of the Demo Service that may be in flight or finished
MaxCalls == 3

---------------------------------------------------------------------------
(* The Data Store *)

Ids == 1..MaxId

\* ids a request may ask for; MaxId + 1 and 0 are ids that no row carries
ReqIds == 0..(MaxId + 1)

People == {<<"Ann", "ann@x.com">>, <<"Bob", "bob@x.com">>}

\* a price is a real number; the model counts it in tenths
Goods == {<<"pen", 15>>}

UsersCols == <<"id", "name", "email">>

ProductsCols == <<"id", "name", "price">>

AllTables == {"users", "products"}

Ordered(S) ==
    CHOOSE s \in [1..Cardinality(S) -> S] :
        \A i, j \in 1..Cardinality(S) : i < j => s[i] < s[j]

\* the tables whose primary keys are in 1..MaxId, rows in rowid order
TablesOver(payloads) ==
    { [i \in 1..Cardinality(S) |-> <<Ordered(S)[i]>> \o f[Ordered(S)[i]]] :
        <<S, f>> \in UNION { {S} \X [S -> payloads] : S \in SUBSET Ids } }

DB == [tables |-> tables, users |-> users, products |-> products]

RowIds(rows) == { rows[i][1] : i \in 1..Len(rows) }

---------------------------------------------------------------------------
(* Flask/app.py: query_db *)

Q_USERS == "SELECT * FROM users"

Q_USER == "SELECT * FROM users WHERE id = ?"

Q_PRODUCTS == "SELECT * FROM products"

Q_PRODUCT == "SELECT * FROM products WHERE id = ?"

Queries == {Q_USERS, Q_USER, Q_PRODUCTS, Q_PRODUCT}

QueryTable(query) == IF query \in {Q_USERS, Q_USER} THEN "users" ELSE "products"

QueryCols(query) == IF query \in {Q_USERS, Q_USER} THEN UsersCols ELSE ProductsCols

Placeholders(query) == IF query \in {Q_USER, Q_PRODUCT} THEN 1 ELSE 0

\* sqlite3.Row: a tuple of values that also knows its column names
Row(cols, vals) == [cols |-> cols, vals |-> vals]

PyNone == [type |-> "None"]

PyRow(row) == [type |-> "Row", row |-> row]

PyList(rows) == [type |-> "list", rows |-> rows]

\* cur.execute(query, args); cur.fetchall(): the statement fails when its
\* table does not exist or the bindings do not match the placeholders
Execute(query, args, db) ==
    IF QueryTable(query) \notin db.tables \/ Len(args) # Placeholders(query)
    THEN [ok |-> FALSE, rows |-> <<>>]
    ELSE LET all == db[QueryTable(query)]
             hit(r) == Placeholders(query) = 0 \/ r[1] = args[1]
             sel == SelectSeq(all, hit)
         IN [ok |-> TRUE,
             rows |-> [i \in 1..Len(sel) |-> Row(QueryCols(query), sel[i])]]

query_db_last(query, args, one, db) ==
    LET ex == Execute(query, args, db)
    IN IF ~ex.ok
       THEN [raised |-> TRUE, value |-> PyNone, open |-> 1]
       ELSE [raised |-> FALSE,
             value |-> IF one
                       THEN (IF ex.rows # <<>>
                             THEN PyRow(ex.rows[Len(ex.rows)]) ELSE PyNone)
                       ELSE PyList(ex.rows),
             open |-> 0]

\* conn is opened, the statement executed, the rows fetched, conn closed;
\* an exception of execute leaves before conn.close()
query_db(query, args, one, db) ==
    LET ex == Execute(query, args, db)
    IN IF ~ex.ok
       THEN [raised |-> TRUE, value |-> PyNone, open |-> 1]
       ELSE [raised |-> FALSE,
             value |-> IF one
                       THEN (IF ex.rows # <<>> THEN PyRow(ex.rows[1]) ELSE PyNone)
                       ELSE PyList(ex.rows),
             open |-> 0]

---------------------------------------------------------------------------
(* Flask/app.py: the API Service *)

HTTP_OK == 200

NOT_FOUND == 404

METHOD_NOT_ALLOWED == 405

SERVER_ERROR == 500

Html == [kind |-> "html"]

Json(data) == [kind |-> "json", data |-> data]

JObject(obj) == [type |-> "object", obj |-> obj]

JArray(elems) == [type |-> "array", elems |-> elems]

Response(status, body) == [status |-> status, body |-> body]

Index(cols, c) == CHOOSE i \in 1..Len(cols) : cols[i] = c

\* dict(row): the mapping from each column name of the row to its value
Dict(row) ==
    [c \in { row.cols[i] : i \in 1..Len(row.cols) } |-> row.vals[Index(row.cols, c)]]

\* Python's truth value of what query_db returned
Truthy(v) ==
    \/ v.type = "Row" /\ Len(v.row.vals) > 0
    \/ v.type = "list" /\ Len(v.rows) > 0

\* what a handler gives back: a response, or an exception that left it
Returned(resp, q) == [raised |-> FALSE, resp |-> resp, open |-> q.open]

Raised(q) == [raised |-> TRUE, resp |-> Response(SERVER_ERROR, Html), open |-> q.open]

NoQuery == [open |-> 0]

home ==
    Returned(Response(HTTP_OK,
                      Json(JObject([message |-> "Welcome to the Flask SQLite API"]))),
             NoQuery)

ListHandlerShort(query, db) ==
    LET q == query_db(query, <<>>, FALSE, db)
    IN IF q.raised THEN Raised(q)
       ELSE Returned(Response(HTTP_OK,
                 Json(JArray([i \in 1..(Len(q.value.rows) - 1) |->
                                 Dict(q.value.rows[i])]))),
                 q)

\* rows = query_db(query); jsonify([dict(row) for row in rows])
ListHandler(query, db) ==
    LET q == query_db(query, <<>>, FALSE, db)
    IN IF q.raised THEN Raised(q)
       ELSE Returned(Response(HTTP_OK,
                 Json(JArray([i \in 1..Len(q.value.rows) |-> Dict(q.value.rows[i])]))),
                 q)

OneHandlerNoStatus(query, id, missing, db) ==
    LET q == query_db(query, <<id>>, TRUE, db)
    IN IF q.raised THEN Raised(q)
       ELSE IF Truthy(q.value)
            THEN Returned(Response(HTTP_OK, Json(JObject(Dict(q.value.row)))), q)
            ELSE Returned(Response(HTTP_OK, Json(JObject([error |-> missing]))), q)

\* row = query_db(query, (id,), one=True);
\* jsonify(dict(row)) if row else ({"error": missing}, 404)
OneHandler(query, id, missing, db) ==
    LET q == query_db(query, <<id>>, TRUE, db)
    IN IF q.raised THEN Raised(q)
       ELSE IF Truthy(q.value)
            THEN Returned(Response(HTTP_OK, Json(JObject(Dict(q.value.row)))), q)
            ELSE Returned(Response(NOT_FOUND, Json(JObject([error |-> missing]))), q)

get_users(db) == ListHandler(Q_USERS, db)

get_user_any(user_id, db) ==
    LET q == query_db(Q_USERS, <<>>, TRUE, db)
    IN IF q.raised THEN Raised(q)
       ELSE IF Truthy(q.value)
            THEN Returned(Response(HTTP_OK, Json(JObject(Dict(q.value.row)))), q)
            ELSE Returned(Response(NOT_FOUND, Json(JObject([error |-> "User not found"]))), q)

get_user(user_id, db) == OneHandler(Q_USER, user_id, "User not found", db)

get_products(db) == ListHandler(Q_PRODUCTS, db)

get_product(product_id, db) == OneHandler(Q_PRODUCT, product_id, "Product not found", db)

Methods == {"GET", "HEAD", "OPTIONS", "POST", "DELETE"}

Empty == [kind |-> "empty"]

\* the URL rule a path matches; <int:...> matches a non-negative integer
ApiRoute(path) ==
    CASE path = <<>> -> "home"
      [] Len(path) = 1 /\ path[1] = "users" -> "get_users"
      [] Len(path) = 1 /\ path[1] = "products" -> "get_products"
      [] Len(path) = 2 /\ path[1] = "users" -> "get_user"
      [] Len(path) = 2 /\ path[1] = "products" -> "get_product"
      [] OTHER -> "none"

\* every rule is registered without methods=: it takes GET, and with it the
\* HEAD and OPTIONS the framework adds
ApiAllowed(route) == {"GET", "HEAD", "OPTIONS"}

Handle(route, path, db) ==
    CASE route = "home" -> home
      [] route = "get_users" -> get_users(db)
      [] route = "get_user" -> get_user(path[2], db)
      [] route = "get_products" -> get_products(db)
      [] route = "get_product" -> get_product(path[2], db)

Answer(resp, leaked, db) ==
    [resp |-> resp, open |-> leaked, users |-> db.users, products |-> db.products]

DropRow(rows, id) == SelectSeq(rows, LAMBDA r : r[1] # id)

ServeWithDelete(req, db) ==
    LET route == ApiRoute(req.path)
    IN IF route = "none" THEN Answer(Response(NOT_FOUND, Html), 0, db)
       ELSE IF req.method = "DELETE" /\ route = "get_user"
       THEN Answer(Response(HTTP_OK, Json(JObject([deleted |-> req.path[2]]))), 0,
                   [db EXCEPT !.users = DropRow(db.users, req.path[2])])
       ELSE IF req.method \notin ApiAllowed(route)
       THEN Answer(Response(METHOD_NOT_ALLOWED, Html), 0, db)
       ELSE IF req.method = "OPTIONS"
       THEN Answer(Response(HTTP_OK, Empty), 0, db)
       ELSE LET h == Handle(route, req.path, db)
            IN Answer(IF req.method = "HEAD"
                      THEN Response(h.resp.status, Empty) ELSE h.resp,
                      h.open, db)

\* the API Service on one request: no rule matches (404), the rule does not
\* take the method (405), the framework answers OPTIONS itself, or the
\* handler runs (HEAD: its response without the body); an exception leaving
\* the handler becomes the framework's 500 page
Serve(req, db) ==
    LET route == ApiRoute(req.path)
    IN IF route = "none" THEN Answer(Response(NOT_FOUND, Html), 0, db)
       ELSE IF req.method \notin ApiAllowed(route)
       THEN Answer(Response(METHOD_NOT_ALLOWED, Html), 0, db)
       ELSE IF req.method = "OPTIONS"
       THEN Answer(Response(HTTP_OK, Empty), 0, db)
       ELSE LET h == Handle(route, req.path, db)
            IN Answer(IF req.method = "HEAD"
                      THEN Response(h.resp.status, Empty) ELSE h.resp,
                      h.open, db)

ApiPaths ==
    {<<>>, <<"users">>, <<"products">>, <<"orders">>}
        \cup { <<t, id>> : t \in {"users", "products"}, id \in ReqIds }

NoJson == [type |-> "none"]

Request(from, method, path, json) ==
    [from |-> from, method |-> method, path |-> path, json |-> json]

NoRequest == [from |-> "nobody"]

NoResponse == [status |-> 0]

NoForm == [none |-> "none"]

ClientRequest(route, id, form, net) ==
    [route |-> route, id |-> id, form |-> form, net |-> net]

NoClientRequest == ClientRequest("none", 0, NoForm, "up")

NotSent == [sent |-> FALSE, failed |-> FALSE]

\* a request sent to the API Service by anyone but the Client Service
ApiRequest ==
    \E method \in Methods, path \in ApiPaths :
        LET req == Request("direct", method, path, NoJson)
            a == Serve(req, DB)
        IN /\ open + a.open <= MaxOpen
           /\ apiReq' = req
           /\ apiResp' = a.resp
           /\ open' = open + a.open
           /\ users' = a.users
           /\ products' = a.products
           /\ cliReq' = NoClientRequest
           /\ cliUp' = NotSent
           /\ cliResp' = NoResponse
           /\ UNCHANGED <<tables, users0, products0, qIn, qOut>>
           /\ UNCHANGED demoVars

---------------------------------------------------------------------------
(* Flask/client.py: the Client Service *)

FOUND == 302

BAD_REQUEST == 400

Page(template, data) ==
    [status |-> HTTP_OK, kind |-> "page", template |-> template, data |-> data]

NoData == [type |-> "none"]

\* redirect(url_for(endpoint))
Redirect(location) == [status |-> FOUND, kind |-> "redirect", location |-> location]

\* the framework's answer to an exception no handler catches
Fault == [status |-> SERVER_ERROR, kind |-> "error"]

\* request.form[key] with the key missing
BadRequest == [status |-> BAD_REQUEST, kind |-> "error"]

\* requests.get / post / delete: a ConnectionError when the API Service
\* cannot be reached, else its response whatever the status
Forward(method, path, json, net, db) ==
    IF net = "down"
    THEN [sent |-> TRUE, failed |-> TRUE]
    ELSE [sent |-> TRUE, failed |-> FALSE,
          req |-> Request("client", method, path, json),
          a |-> Serve(Request("client", method, path, json), db)]

Out(resp, fwd) == [resp |-> resp, fwd |-> fwd]

client_home == Out(Page("base.html", NoData), NotSent)

ShowListing(table, template, net, db) ==
    LET f == Forward("GET", <<table>>, NoJson, net, db)
    IN IF f.failed THEN Out(Fault, f)
       ELSE IF f.a.resp.body.kind # "json" THEN Out(Fault, f)
       ELSE Out(Page(template, f.a.resp.body.data), f)

show_users(net, db) == ShowListing("users", "users.html", net, db)

show_products(net, db) == ShowListing("products", "products.html", net, db)

AddUserChecked(form, net, db) ==
    IF "name" \notin DOMAIN form \/ "email" \notin DOMAIN form
    THEN Out(BadRequest, NotSent)
    ELSE LET f == Forward("POST", <<"users">>,
                          JObject([name |-> form["name"], email |-> form["email"]]),
                          net, db)
         IN IF f.failed \/ f.a.resp.status # HTTP_OK THEN Out(Fault, f)
            ELSE Out(Redirect("/users"), f)

add_user(form, net, db) ==
    IF "name" \notin DOMAIN form \/ "email" \notin DOMAIN form
    THEN Out(BadRequest, NotSent)
    ELSE LET f == Forward("POST", <<"users">>,
                          JObject([name |-> form["name"], email |-> form["email"]]),
                          net, db)
         IN IF f.failed THEN Out(Fault, f) ELSE Out(Redirect("/users"), f)

delete_user(user_id, net, db) ==
    LET f == Forward("DELETE", <<"users", user_id>>, NoJson, net, db)
    IN IF f.failed THEN Out(Fault, f) ELSE Out(Redirect("/users"), f)

\* float(price): the number a decimal literal denotes, in tenths; any other
\* text raises ValueError
Float(text) ==
    CASE text = "1.5" -> [ok |-> TRUE, value |-> 15]
      [] text = "2" -> [ok |-> TRUE, value |-> 20]
      [] OTHER -> [ok |-> FALSE, value |-> 0]

add_product(form, net, db) ==
    IF "name" \notin DOMAIN form \/ "price" \notin DOMAIN form
    THEN Out(BadRequest, NotSent)
    ELSE IF ~Float(form["price"]).ok THEN Out(Fault, NotSent)
    ELSE LET f == Forward("POST", <<"products">>,
                          JObject([name |-> form["name"],
                                   price |-> Float(form["price"]).value]),
                          net, db)
         IN IF f.failed THEN Out(Fault, f) ELSE Out(Redirect("/products"), f)

delete_product(product_id, net, db) ==
    LET f == Forward("DELETE", <<"products", product_id>>, NoJson, net, db)
    IN IF f.failed THEN Out(Fault, f) ELSE Out(Redirect("/products"), f)

Nets == {"up", "down"}

UserForms ==
    { [name |-> p[1], email |-> p[2]] : p \in People } \cup { [name |-> "Ann"] }

ProductForms ==
    { [name |-> "pen", price |-> t] : t \in {"1.5", "abc"} } \cup { [name |-> "pen"] }

\* one request handled by the Client Service, its forwarding call included
ClientStep(creq, out) ==
    LET reached == out.fwd.sent /\ ~out.fwd.failed
        leaked == IF reached THEN out.fwd.a.open ELSE 0
    IN /\ open + leaked <= MaxOpen
       /\ cliReq' = creq
       /\ cliResp' = out.resp
       /\ cliUp' = IF reached
                   THEN [sent |-> TRUE, failed |-> FALSE, resp |-> out.fwd.a.resp]
                   ELSE [sent |-> out.fwd.sent, failed |-> out.fwd.failed,
                         resp |-> NoResponse]
       /\ apiReq' = IF reached THEN out.fwd.req ELSE NoRequest
       /\ apiResp' = IF reached THEN out.fwd.a.resp ELSE NoResponse
       /\ open' = open + leaked
       /\ users' = IF reached THEN out.fwd.a.users ELSE users
       /\ products' = IF reached THEN out.fwd.a.products ELSE products
       /\ UNCHANGED <<tables, users0, products0, qIn, qOut>>
       /\ UNCHANGED demoVars

ClientHome == ClientStep(ClientRequest("home", 0, NoForm, "up"), client_home)

ShowUsers ==
    \E net \in Nets :
        ClientStep(ClientRequest("show_users", 0, NoForm, net), show_users(net, DB))

AddUser ==
    \E form \in UserForms, net \in Nets :
        ClientStep(ClientRequest("add_user", 0, form, net), add_user(form, net, DB))

DeleteUser ==
    \E id \in ReqIds, net \in Nets :
        ClientStep(ClientRequest("delete_user", id, NoForm, net),
                   delete_user(id, net, DB))

ShowProducts ==
    \E net \in Nets :
        ClientStep(ClientRequest("show_products", 0, NoForm, net),
                   show_products(net, DB))

AddProduct ==
    \E form \in ProductForms, net \in Nets :
        ClientStep(ClientRequest("add_product", 0, form, net),
                   add_product(form, net, DB))

DeleteProduct ==
    \E id \in ReqIds, net \in Nets :
        ClientStep(ClientRequest("delete_product", id, NoForm, net),
                   delete_product(id, net, DB))

---------------------------------------------------------------------------
(* Direct calls of query_db *)

QueryArgs == {<<>>} \cup { <<id>> : id \in ReqIds }

CallQueryDb ==
    \E query \in Queries, args \in QueryArgs, one \in BOOLEAN :
        LET q == query_db(query, args, one, DB)
        IN /\ open + q.open <= MaxOpen
           /\ qIn' = [query |-> query, args |-> args, one |-> one]
           /\ qOut' = q
           /\ open' = open + q.open
           /\ UNCHANGED <<tables, users, products, users0, products0, apiReq,
                          apiResp, cliReq, cliUp, cliResp>>
           /\ UNCHANGED demoVars

---------------------------------------------------------------------------
(* FastAPI/main.py: the Demo Service *)

UNPROCESSABLE == 422

Items == {"apple", "pear"}

Missing == "<missing>"

Calls == 1..MaxCalls

NewCall == [pc |-> "new", arg |-> Missing, ret |-> Missing, status |-> 0]

AppendOnce(lst, item) ==
    IF \E i \in 1..Len(lst) : lst[i] = item THEN lst ELSE Append(lst, item)

\* items.append(item): one step of the interpreter, never torn
ListAppend(lst, item) == Append(lst, item)

\* return item
create_item_return(item, lst) == item

\* POST /items arrives: the query parameter item is required
PostItems(c) ==
    \E item \in Items \cup {Missing} :
        /\ calls[c].pc = "new"
        /\ calls' = [calls EXCEPT ![c] =
                        IF item = Missing
                        THEN [NewCall EXCEPT !.pc = "rejected", !.status = UNPROCESSABLE]
                        ELSE [NewCall EXCEPT !.pc = "running", !.arg = item]]
        /\ UNCHANGED <<items, demoResp>>
        /\ UNCHANGED flaskVars

CreateItemAppend(c) ==
    /\ calls[c].pc = "running"
    /\ items' = ListAppend(items, calls[c].arg)
    /\ calls' = [calls EXCEPT ![c].pc = "appended"]
    /\ UNCHANGED demoResp
    /\ UNCHANGED flaskVars

CreateItemReturn(c) ==
    /\ calls[c].pc = "appended"
    /\ calls' = [calls EXCEPT ![c].pc = "returned",
                              ![c].ret = create_item_return(calls[c].arg, items),
                              ![c].status = HTTP_OK]
    /\ UNCHANGED <<items, demoResp>>
    /\ UNCHANGED flaskVars

\* GET /
root ==
    /\ demoResp' = [status |-> HTTP_OK, route |-> "root", body |-> [hello |-> "world"]]
    /\ UNCHANGED <<items, calls>>
    /\ UNCHANGED flaskVars

\* GET /about: the handler returns a set of one string
about ==
    /\ demoResp' = [status |-> HTTP_OK, route |-> "about", body |-> <<"About Page">>]
    /\ UNCHANGED <<items, calls>>
    /\ UNCHANGED flaskVars

---------------------------------------------------------------------------
(* Specifications *)

FlaskInit(schemas, people, goods) ==
    /\ tables \in schemas
    /\ users \in (IF "users" \in tables THEN TablesOver(people) ELSE {<<>>})
    /\ products \in (IF "products" \in tables THEN TablesOver(goods) ELSE {<<>>})
    /\ users0 = users
    /\ products0 = products
    /\ open = 0
    /\ apiReq = NoRequest
    /\ apiResp = NoResponse
    /\ cliReq = NoClientRequest
    /\ cliUp = NotSent
    /\ cliResp = NoResponse
    /\ qIn = [query |-> "none"]
    /\ qOut = [raised |-> FALSE, value |-> PyNone, open |-> 0]

DemoInit ==
    /\ items = <<>>
    /\ calls = [c \in Calls |-> NewCall]
    /\ demoResp = NoResponse

\* the schema exists, as the services assume
Init == FlaskInit({AllTables}, People, Goods) /\ DemoInit

\* database.db as sqlite3.connect finds or creates it: any table may be missing
InitAnyDb == FlaskInit(SUBSET AllTables, People, Goods) /\ DemoInit

\* the Demo Service runs on its own: the store stays as created, empty
InitDemo == FlaskInit({AllTables}, {}, {}) /\ DemoInit

FlaskNext ==
    \/ ApiRequest
    \/ ClientHome
    \/ ShowUsers
    \/ AddUser
    \/ DeleteUser
    \/ ShowProducts
    \/ AddProduct
    \/ DeleteProduct

DemoNext ==
    \/ \E c \in Calls : PostItems(c)
    \/ \E c \in Calls : CreateItemAppend(c)
    \/ \E c \in Calls : CreateItemReturn(c)
    \/ root
    \/ about

Next == FlaskNext

Spec == Init /\ [][Next]_vars

SpecAnyDb == InitAnyDb /\ [][FlaskNext]_vars

QuerySpec == InitAnyDb /\ [][CallQueryDb]_vars

DemoSpec == InitDemo /\ [][DemoNext]_vars

---------------------------------------------------------------------------
(* The claims about the API Service, under Spec *)

IsGet(table) ==
    /\ apiReq.from # "nobody"
    /\ apiReq.method = "GET"
    /\ Len(apiReq.path) = 2
    /\ apiReq.path[1] = table

IsList(table) ==
    /\ apiReq.from # "nobody"
    /\ apiReq.method = "GET"
    /\ apiReq.path = <<table>>

ErrorPayload(text) ==
    /\ apiResp.status = NOT_FOUND
    /\ apiResp.body.kind = "json"
    /\ apiResp.body.data.type = "object"
    /\ DOMAIN apiResp.body.data.obj = {"error"}
    /\ apiResp.body.data.obj.error = text

StoreUnchanged == users = users0 /\ products = products0

C2_UserFields ==
    (IsGet("users") /\ apiReq.path[2] \in RowIds(users)) =>
        /\ apiResp.status = HTTP_OK
        /\ apiResp.body.kind = "json"
        /\ apiResp.body.data.type = "object"
        /\ DOMAIN apiResp.body.data.obj = {"id", "name", "email"}
        /\ apiResp.body.data.obj.id = apiReq.path[2]
        /\ \E i \in 1..Len(users) :
              /\ users[i][1] = apiReq.path[2]
              /\ apiResp.body.data.obj.name = users[i][2]
              /\ apiResp.body.data.obj.email = users[i][3]

C2_Witness ==
    /\ Len(users) = 2
    /\ users[1][2] # users[2][2]
    /\ IsGet("users")
    /\ apiReq.path[2] = users[2][1]
    /\ apiResp.status = HTTP_OK
    /\ apiResp.body.data.obj.name = users[2][2]

SameUser(obj, row) ==
    /\ DOMAIN obj = {"id", "name", "email"}
    /\ obj.id = row[1]
    /\ obj.name = row[2]
    /\ obj.email = row[3]

\* C3: GET /users answers with an array as long as the users table, and the
\* elements and the stored rows match one to one.
C3_Listing ==
    IsList("users") =>
        /\ apiResp.status = HTTP_OK
        /\ apiResp.body.kind = "json"
        /\ apiResp.body.data.type = "array"
        /\ Len(apiResp.body.data.elems) = Len(users)
        /\ \E p \in [1..Len(users) -> 1..Len(users)] :
              /\ \A i, j \in 1..Len(users) : p[i] = p[j] => i = j
              /\ \A i \in 1..Len(users) :
                    SameUser(apiResp.body.data.elems[i], users[p[i]])

C3_Witness ==
    /\ Len(users) = 2
    /\ IsList("users")
    /\ Len(apiResp.body.data.elems) = 2

\* C9: whatever requests the API Service has handled, on its routes or on a
\* method or path it does not define, both tables hold what they held at
\* the start.
C9_ReadOnly == apiReq.from # "nobody" => StoreUnchanged

C9_Witness ==
    /\ apiReq.from = "direct"
    /\ apiReq.method = "DELETE"
    /\ apiReq.path = <<"users", 1>>
    /\ 1 \in RowIds(users)
    /\ apiResp.status = METHOD_NOT_ALLOWED
    /\ users = users0

---------------------------------------------------------------------------
(* The claims about the Client Service with the API Service behind it *)

Forwarded == cliUp.sent /\ ~cliUp.failed

ListsUser(resp, name, email) ==
    /\ resp.status = HTTP_OK
    /\ resp.body.kind = "json"
    /\ resp.body.data.type = "array"
    /\ \E i \in 1..Len(resp.body.data.elems) :
          /\ resp.body.data.elems[i].name = name
          /\ resp.body.data.elems[i].email = email

\* C4: once the Client Service has handled POST /users/add with name and
\* email and forwarded the create request, the GET /users that follows lists
\* an entry with that name and that email.
C4_AddThenList ==
    [][ ( /\ cliReq.route = "add_user"
          /\ Forwarded
          /\ apiReq'.from = "direct"
          /\ apiReq'.method = "GET"
          /\ apiReq'.path = <<"users">> )
        => ListsUser(apiResp', cliReq.form.name, cliReq.form.email) ]_vars

\* C5: once the Client Service has handled GET /users/delete/{id} for an id
\* in the store and forwarded the delete request, the GET /users/{id} that
\* follows answers 404 with the not-found payload.
C5_DeleteThenGet ==
    [][ ( /\ cliReq.route = "delete_user"
          /\ cliReq.id \in RowIds(users0)
          /\ Forwarded
          /\ apiReq'.from = "direct"
          /\ apiReq'.method = "GET"
          /\ apiReq'.path = <<"users", cliReq.id>> )
        => ( /\ apiResp'.status = NOT_FOUND
             /\ apiResp'.body = Json(JObject([error |-> "User not found"])) ) ]_vars

\* C7: no connection that query_db opened is open once query_db has
\* returned or failed, whatever requests were handled.
C7_ConnectionsClosed == open = 0

ForwardingRoutes ==
    {"show_users", "add_user", "delete_user",
     "show_products", "add_product", "delete_product"}

ListRoutes == {"show_users", "show_products"}

Listing(route) ==
    IF route \in {"add_user", "delete_user"} THEN "/users" ELSE "/products"

---------------------------------------------------------------------------
(* The claim about query_db, under QuerySpec *)

\* positions of the rows of the statement's table that the statement matches
Matched ==
    LET t == DB[QueryTable(qIn.query)]
    IN { i \in 1..Len(t) : Placeholders(qIn.query) = 0 \/ t[i][1] = qIn.args[1] }

\* C10: a call of query_db that returns gives, with one=False, the sequence
\* of all matched rows in store order (empty when none matched), and with
\* one=True the first matched row when there is one and None when there is
\* none, never a sequence.
C10_QueryResult ==
    (qIn.query # "none" /\ ~qOut.raised) =>
        LET t == DB[QueryTable(qIn.query)]
            n == Cardinality(Matched)
        IN IF ~qIn.one
           THEN /\ qOut.value.type = "list"
                /\ Len(qOut.value.rows) = n
                /\ \A k \in 1..n : qOut.value.rows[k].vals = t[Ordered(Matched)[k]]
           ELSE /\ qOut.value.type # "list"
                /\ n = 0 => qOut.value.type = "None"
                /\ n > 0 => /\ qOut.value.type = "Row"
                            /\ qOut.value.row.vals = t[Ordered(Matched)[1]]

C10_Witness ==
    /\ qIn.query = Q_USERS
    /\ qIn.one
    /\ Len(users) = 2
    /\ ~qOut.raised
    /\ qOut.value.type = "Row"
    /\ qOut.value.row.vals = users[1]

---------------------------------------------------------------------------
(* The claim about the Demo Service, under DemoSpec *)

Appended == { c \in Calls : calls[c].pc \in {"appended", "returned"} }

Count(item, S) == Cardinality({ c \in S : calls[c].arg = item })

Occurrences(item, lst) == Cardinality({ i \in 1..Len(lst) : lst[i] = item })

\* C6: every POST /items call that returned gave back the string it was
\* given, and in every interleaving the list is as long as the number of
\* calls that have appended and holds each string as often as those calls
\* submitted it; GET / and GET /about leave the list alone.
C6_Items ==
    /\ \A c \in Calls :
          calls[c].pc = "returned" =>
              (calls[c].ret = calls[c].arg /\ calls[c].status = HTTP_OK)
    /\ Len(items) = Cardinality(Appended)
    /\ \A item \in Items : Occurrences(item, items) = Count(item, Appended)

C6_Witness ==
    /\ \A c \in Calls : calls[c].pc = "returned"
    /\ Len(items) = MaxCalls
    /\ Occurrences("apple", items) >= 2
    /\ Occurrences("pear", items) >= 1
    /\ demoResp.status = HTTP_OK

====
